---- MODULE Spec2Model ----
(***************************************************************************)
(* Model of the return-series analytics of spg2143/QuantFinance:           *)
(*   AssetSelection/AssetScorer.py  check_return_cleanliness, asset_score  *)
(*   BackTest/metrics.py            value_at_risk, drawdown, max_drawdown, *)
(*                                  sharpe_ratio, sortino_ratio            *)
(* A pandas Series is a record [rep, index, values]; the caller's Series   *)
(* and the copies the code allocates live in a heap of objects, so that    *)
(* "returns.index = ..." (in place) and "returns.sort_index()" (a copy)    *)
(* stay apart.  Return values are binary floating-point numbers, rounded   *)
(* to nearest-even after every operation as numpy does, with a significand *)
(* of Prec bits (float64 has 53; the model keeps the rounding, not the     *)
(* width) and an unbounded exponent.                                       *)
(***************************************************************************)
EXTENDS Integers, Sequences, FiniteSets, TLC

\* ------------------------------------------------------------------ bounds
\* Longest series the caller supplies.
MaxLen == 3
\* Timestamps are 1..MaxT (days); duplicates arise when a series repeats one.
MaxT == 3
\* Bits of the floating-point significand.
Prec == 8

\* ------------------------------------------------- floating-point numbers
\* A float is [k, m, e]: k = "fin" is the number m * 2^e (m odd, or m = e = 0),
\* k = "inf" is +inf (m = 1) or -inf (m = -1), k = "nan" is NaN.
NaN == [k |-> "nan", m |-> 0, e |-> 0]
PosInf == [k |-> "inf", m |-> 1, e |-> 0]
NegInf == [k |-> "inf", m |-> -1, e |-> 0]
Zero == [k |-> "fin", m |-> 0, e |-> 0]
Half == [k |-> "fin", m |-> 1, e |-> -1]

Abs(n) == IF n < 0 THEN -n ELSE n
Sign(n) == IF n < 0 THEN -1 ELSE IF n > 0 THEN 1 ELSE 0
Min2(a, b) == IF a <= b THEN a ELSE b
Max2(a, b) == IF a >= b THEN a ELSE b

RECURSIVE Pow2(_)
Pow2(n) == IF n <= 0 THEN 1 ELSE 2 * Pow2(n - 1)

RECURSIVE BitLen(_)
BitLen(n) == IF n <= 0 THEN 0 ELSE 1 + BitLen(n \div 2)

\* m * 2^e with the trailing zero bits of m moved into the exponent.
RECURSIVE Normalize(_, _)
Normalize(m, e) ==
    IF m = 0 THEN Zero
    ELSE IF m % 2 = 0 THEN Normalize(m \div 2, e + 1)
    ELSE [k |-> "fin", m |-> m, e |-> e]

\* The float nearest to the integer M times 2^e: round to nearest, ties to even.
RoundInt(M, e) ==
    LET a == Abs(M)
        len == BitLen(a)
        cut == len - Prec
        q == a \div Pow2(cut)
        r == a % Pow2(cut)
        half == Pow2(cut - 1)
        up == r > half \/ (r = half /\ q % 2 = 1)
    IN  IF len <= Prec THEN Normalize(M, e)
        ELSE Normalize(Sign(M) * (IF up THEN q + 1 ELSE q), e + cut)

Float(n) == RoundInt(n, 0)
IsNaN(a) == a.k = "nan"
IsFinite(a) == a.k = "fin"
FNeg(a) == [a EXCEPT !.m = -a.m]

FAdd(a, b) ==
    IF IsNaN(a) \/ IsNaN(b) THEN NaN
    ELSE IF a.k = "inf" /\ b.k = "inf" THEN (IF a.m = b.m THEN a ELSE NaN)
    ELSE IF a.k = "inf" THEN a
    ELSE IF b.k = "inf" THEN b
    ELSE LET lo == Min2(a.e, b.e)
         IN  RoundInt(a.m * Pow2(a.e - lo) + b.m * Pow2(b.e - lo), lo)

FSub(a, b) == FAdd(a, FNeg(b))

FMul(a, b) ==
    IF IsNaN(a) \/ IsNaN(b) THEN NaN
    ELSE IF a.k = "inf" \/ b.k = "inf"
         THEN (IF a.m = 0 \/ b.m = 0 THEN NaN
               ELSE IF Sign(a.m) = Sign(b.m) THEN PosInf ELSE NegInf)
    ELSE RoundInt(a.m * b.m, a.e + b.e)

\* IEEE division: x/0 is +-inf, 0/0 and inf/inf are NaN; nothing raises.
\* The quotient is cut to Prec + 2 bits or more plus a sticky bit, then rounded.
FDiv(a, b) ==
    IF IsNaN(a) \/ IsNaN(b) THEN NaN
    ELSE IF a.k = "inf"
         THEN (IF b.k = "inf" THEN NaN
               ELSE IF Sign(a.m) * (IF b.m < 0 THEN -1 ELSE 1) > 0 THEN PosInf ELSE NegInf)
    ELSE IF b.k = "inf" THEN Zero
    ELSE IF b.m = 0
         THEN (IF a.m = 0 THEN NaN ELSE IF a.m > 0 THEN PosInf ELSE NegInf)
    ELSE IF a.m = 0 THEN Zero
    ELSE LET p == Abs(a.m)
             d == Abs(b.m)
             s == Max2(0, Prec + 2 + BitLen(d) - BitLen(p))
             n == p * Pow2(s)
             quo == n \div d
             sticky == IF n % d = 0 THEN 0 ELSE 1
         IN  RoundInt(Sign(a.m) * Sign(b.m) * (2 * quo + sticky), a.e - b.e - s - 1)

RECURSIVE ISqrt(_)
ISqrt(n) ==
    IF n < 2 THEN n
    ELSE LET r == 2 * ISqrt(n \div 4)
         IN  IF (r + 1) * (r + 1) <= n THEN r + 1 ELSE r

\* Correctly rounded square root; of a negative number, NaN.
FSqrt(a) ==
    IF IsNaN(a) THEN NaN
    ELSE IF a.k = "inf" THEN (IF a.m > 0 THEN PosInf ELSE NaN)
    ELSE IF a.m < 0 THEN NaN
    ELSE IF a.m = 0 THEN Zero
    ELSE LET t0 == 2 * Prec + 4 - BitLen(a.m)
             t == IF (a.e - t0) % 2 = 0 THEN t0 ELSE t0 + 1
             n == a.m * Pow2(t)
             r == ISqrt(n)
             sticky == IF r * r = n THEN 0 ELSE 1
         IN  RoundInt(2 * r + sticky, ((a.e - t) \div 2) - 1)

\* a < b and a <= b on floats; every comparison with NaN is false.
FLt(a, b) ==
    IF IsNaN(a) \/ IsNaN(b) THEN FALSE
    ELSE IF a.k = "inf" THEN a.m < 0 /\ ~(b.k = "inf" /\ b.m < 0)
    ELSE IF b.k = "inf" THEN b.m > 0
    ELSE LET lo == Min2(a.e, b.e)
         IN  a.m * Pow2(a.e - lo) < b.m * Pow2(b.e - lo)

FLe(a, b) == ~IsNaN(a) /\ ~IsNaN(b) /\ ~FLt(b, a)

\* Largest integer <= a finite float (numpy floor of the virtual index).
FFloor(a) ==
    IF a.e >= 0 THEN a.m * Pow2(a.e)
    ELSE LET d == Pow2(-a.e)
         IN  IF a.m >= 0 THEN a.m \div d ELSE -((-a.m + d - 1) \div d)

\* ------------------------------------------------------ numpy and pandas
\* A Series is [rep, index, values]: index is the sequence of labels, each the
\* instant it denotes, rep the type the labels are stored in: ISO date strings,
\* integer epoch offsets, or pandas' datetime64.  The orders of the three types
\* agree with the order of the instants.
Reps == {"str", "int", "datetime"}
NoSeries == [rep |-> "none", index |-> <<>>, values |-> <<>>]
\* Python's None, as an object reference.
None == 0

SeqSum(f, n) == LET RECURSIVE go(_)
                    go(i) == IF i = 1 THEN f[1] ELSE FAdd(go(i - 1), f[i])
                IN  IF n = 0 THEN Zero ELSE go(n)

\* returns.isnull().sum()
NullCount(values) == Cardinality({i \in DOMAIN values : IsNaN(values[i])})

\* A plausible slip: only a repeat of the label just before counts.
DuplicatedAdjacent(index) ==
    Cardinality({i \in DOMAIN index : i > 1 /\ index[i - 1] = index[i]})

\* returns.index.duplicated().sum(): every label seen earlier counts.
DuplicatedCount(index) ==
    Cardinality({i \in DOMAIN index : \E j \in 1..(i - 1) : index[j] = index[i]})

\* returns.index.is_monotonic_increasing (pandas: non-decreasing).
IsMonotonicIncreasing(index) ==
    \A i \in 1..(Len(index) - 1) : index[i] <= index[i + 1]

\* The positions of the series in the order of their labels (stable).
RECURSIVE InsertPos(_, _, _)
InsertPos(order, index, i) ==
    IF order = <<>> THEN <<i>>
    ELSE IF index[i] < index[Head(order)] THEN <<i>> \o order
    ELSE <<Head(order)>> \o InsertPos(Tail(order), index, i)

RECURSIVE ArgSort(_, _)
ArgSort(index, n) ==
    IF n = 0 THEN <<>> ELSE InsertPos(ArgSort(index, n - 1), index, n)

\* A plausible slip: the labels are sorted and the values stay where they were.
SortIndexLabelsOnly(s) ==
    LET order == ArgSort(s.index, Len(s.index))
    IN  [rep |-> s.rep,
         index |-> [i \in DOMAIN s.index |-> s.index[order[i]]],
         values |-> s.values]

\* returns.sort_index(): a new Series, rows reordered by label, labels kept
\* in the type they had.
SortIndex(s) ==
    LET order == ArgSort(s.index, Len(s.index))
    IN  [rep |-> s.rep,
         index |-> [i \in DOMAIN s.index |-> s.index[order[i]]],
         values |-> [i \in DOMAIN s.values |-> s.values[order[i]]]]

\* pd.to_datetime(index): the same instants as datetime64 labels.
ToDatetime(s) == [s EXCEPT !.rep = "datetime"]

\* check_return_cleanliness(returns) on the object ref of heap h: the heap
\* after the call and how the call ended.
CheckReturnCleanliness(h, ref) ==
    IF ref = None
    THEN [heap |-> h, status |-> "raised", err |-> "AttributeError",
          ref |-> None, notice |-> FALSE]
    ELSE IF NullCount(h[ref].values) > 0
    THEN [heap |-> h, status |-> "raised", err |-> "ValueError",
          ref |-> None, notice |-> FALSE]
    ELSE IF DuplicatedCount(h[ref].index) > 0
    THEN [heap |-> h, status |-> "raised", err |-> "ValueError",
          ref |-> None, notice |-> FALSE]
    ELSE IF ~IsMonotonicIncreasing(h[ref].index)
    THEN [heap |-> Append(h, SortIndex(h[ref])), status |-> "returned",
          err |-> "", ref |-> Len(h) + 1, notice |-> TRUE]
    ELSE [heap |-> [h EXCEPT ![ref] = ToDatetime(h[ref])], status |-> "returned",
          err |-> "", ref |-> ref, notice |-> FALSE]

\* values.mean(): sum / count, NaN when empty.
Mean(values) ==
    IF Len(values) = 0 THEN NaN
    ELSE FDiv(SeqSum(values, Len(values)), Float(Len(values)))

\* The sum of squared deviations from the mean, summed left to right.
SumSq(values) ==
    LET avg == Mean(values)
        sq == [i \in DOMAIN values |->
                 FMul(FSub(avg, values[i]), FSub(avg, values[i]))]
    IN  SeqSum(sq, Len(values))

\* A plausible slip: the population standard deviation (ddof = 0).
StdPopulation(values) ==
    IF Len(values) = 0 THEN NaN
    ELSE FSqrt(FDiv(SumSq(values), Float(Len(values))))

\* values.std(): the sample standard deviation (ddof = 1), NaN when the
\* count does not exceed ddof.
Std(values) ==
    IF Len(values) <= 1 THEN NaN
    ELSE FSqrt(FDiv(SumSq(values), Float(Len(values) - 1)))

\* returns[returns < 0]
Negative(values) == SelectSeq(values, LAMBDA v : FLt(v, Zero))

\* returns.add(1).cumprod()
RECURSIVE CumProd(_, _)
CumProd(values, n) ==
    IF n = 0 THEN <<>>
    ELSE IF n = 1 THEN <<FAdd(values[1], Float(1))>>
    ELSE LET prev == CumProd(values, n - 1)
         IN  Append(prev, FMul(prev[n - 1], FAdd(values[n], Float(1))))

\* A plausible slip: the running minimum.
RECURSIVE CumMin(_, _)
CumMin(c, n) ==
    IF n = 0 THEN <<>>
    ELSE IF n = 1 THEN <<c[1]>>
    ELSE LET prev == CumMin(c, n - 1)
         IN  Append(prev, IF FLt(c[n], prev[n - 1]) THEN c[n] ELSE prev[n - 1])

\* cum_ret.cummax(): the running maximum.
RECURSIVE CumMax(_, _)
CumMax(c, n) ==
    IF n = 0 THEN <<>>
    ELSE IF n = 1 THEN <<c[1]>>
    ELSE LET prev == CumMax(c, n - 1)
         IN  Append(prev, IF FLt(prev[n - 1], c[n]) THEN c[n] ELSE prev[n - 1])

\* drawdown(returns)
Drawdown(values) ==
    LET cum_ret == CumProd(values, Len(values))
        running_max == CumMax(cum_ret, Len(values))
    IN  [i \in DOMAIN values |->
            FDiv(FSub(cum_ret[i], running_max[i]), running_max[i])]

\* Series.min(): the least entry, NaN entries skipped; NaN when none is left.
RECURSIVE SeqMin(_, _)
SeqMin(f, n) ==
    IF n = 0 THEN NaN
    ELSE LET rest == SeqMin(f, n - 1)
         IN  IF IsNaN(f[n]) THEN rest
             ELSE IF IsNaN(rest) \/ FLt(f[n], rest) THEN f[n] ELSE rest

RECURSIVE SeqMax(_, _)
SeqMax(f, n) ==
    IF n = 0 THEN NaN
    ELSE LET rest == SeqMax(f, n - 1)
         IN  IF IsNaN(f[n]) THEN rest
             ELSE IF IsNaN(rest) \/ FLt(rest, f[n]) THEN f[n] ELSE rest

\* max_drawdown(returns)
MaxDrawdownOf(values) == SeqMin(Drawdown(values), Len(values))

\* sharpe_ratio(returns, risk_free_rate)
SharpeRatioOf(values, rf) == FDiv(FSub(Mean(values), rf), Std(values))

\* sortino_ratio(returns, risk_free_rate)
SortinoRatioOf(values, rf) == FDiv(FSub(Mean(values), rf), Std(Negative(values)))

\* The values in increasing order (np.percentile sorts its copy).
RECURSIVE InsertVal(_, _)
InsertVal(sorted, v) ==
    IF sorted = <<>> THEN <<v>>
    ELSE IF FLt(v, Head(sorted)) THEN <<v>> \o sorted
    ELSE <<Head(sorted)>> \o InsertVal(Tail(sorted), v)

RECURSIVE SortValues(_, _)
SortValues(values, n) ==
    IF n = 0 THEN <<>> ELSE InsertVal(SortValues(values, n - 1), values[n])

\* numpy's _lerp(a, b, t).
Lerp(a, b, t) ==
    LET diff == FSub(b, a)
    IN  IF FLe(Half, t)
        THEN FSub(b, FMul(diff, FSub(Float(1), t)))
        ELSE FAdd(a, FMul(diff, t))

Hundred == 100

\* np.percentile(a, q), method "linear": q / 100 must lie in [0, 1], else
\* ValueError; the value at the virtual index q / 100 * (n - 1).
Percentile(values, q) ==
    LET quantile == FDiv(q, Float(Hundred))
        n == Len(values)
        arr == SortValues(values, n)
        virtual == FMul(Float(n - 1), quantile)
        previous == FFloor(virtual)
        next == Min2(previous + 1, n - 1)
        gamma == FSub(virtual, Float(previous))
    IN  IF ~(FLe(Zero, quantile) /\ FLe(quantile, Float(1)))
        THEN [status |-> "raised", err |-> "ValueError", scalar |-> NaN]
        ELSE [status |-> "returned", err |-> "",
              scalar |-> Lerp(arr[previous + 1], arr[next + 1], gamma)]

\* value_at_risk(returns, confidence_level)
ValueAtRiskOf(values, cl) ==
    Percentile(values, FMul(Float(Hundred), FSub(Float(1), cl)))

\* ------------------------------------------------------------- the inputs
\* 1 - 2^(1 - Prec): like 0.1 in float64, a return whose threefold sum is
\* rounded, so that sum / 3 is not the return again.
NearOne == Normalize(Pow2(Prec - 1) - 1, 1 - Prec)

\* The caller's returns: losses of 200 %, 100 % and 50 %, no change, gains.
Returns == {Float(-2), Float(-1), FNeg(Half), Zero, Half, Float(1), NearOne}
RiskFreeRates == {Zero, Half, FNeg(Half)}
\* The default 0.95, the ends of [0, 1], and levels inside and outside.
ConfidenceLevels ==
    {FDiv(Float(95), Float(Hundred)), Zero, Float(1), Half, Normalize(1, -2),
     FNeg(Half), Normalize(3, -1)}
Windows == 1..(MaxLen + 1)

\* Series as a data source hands them over: any labels in any order, in any
\* of the label types, values possibly missing.
RawSeries ==
    UNION {[rep : Reps, index : [1..n -> 1..MaxT],
            values : [1..n -> {NaN, Half, FNeg(Half)}]] : n \in 1..MaxLen}

\* Series that are clean already: datetime labels 1..n, any returns.
CleanSeries ==
    UNION {[rep : {"datetime"}, index : {[i \in 1..n |-> i]},
            values : [1..n -> Returns]] : n \in 1..MaxLen}

\* ------------------------------------- Datasets/dashboard_options.py
\* Python values the callbacks exchange: None, a string, a number.
PyNone == [kind |-> "None"]
Str(s) == [kind |-> "str", s |-> s]
Num(n) == [kind |-> "int", n |-> n]

\* str.strip().upper() on the strings a user types here.
StripUpper(s) ==
    CASE s = " " -> ""
      [] s = "MSFT" -> "MSFT"

\* Implied volatility in units of 0.0001: the filter keeps IV > 0.0001.
IvFloor == 1

\* A nullable number of a provider frame is <<>> (NaN) or <<n>>.
\* The contracts a chain can hold: a liquid call, a call whose volume is
\* missing, a liquid put and a put whose IV is 0.0001.
Calls ==
    {[strike |-> <<2>>, iv |-> <<2500>>, volume |-> <<1>>, openInterest |-> <<1>>],
     [strike |-> <<1>>, iv |-> <<3000>>, volume |-> <<>>, openInterest |-> <<1>>]}
Puts ==
    {[strike |-> <<1>>, iv |-> <<2000>>, volume |-> <<1>>, openInterest |-> <<1>>],
     [strike |-> <<1>>, iv |-> <<1>>, volume |-> <<1>>, openInterest |-> <<1>>]}

\* stock.option_chain(date): it raises, or gives a calls frame and a puts
\* frame, either possibly empty.
ChainRaises == [raises |-> TRUE, calls |-> <<>>, puts |-> <<>>]
Chains ==
    {ChainRaises}
    \cup
    {[raises |-> FALSE, calls |-> c, puts |-> p] :
        c \in {<<>>} \cup {<<r>> : r \in Calls},
        p \in {<<>>} \cup {<<r>> : r \in Puts}}

\* The chains with a liquid call and a liquid put, and the one that raises.
LiquidChains ==
    {ChainRaises} \cup
    {c \in Chains : /\ ~c.raises
                    /\ \E i \in DOMAIN c.calls : c.calls[i].volume # <<>>
                    /\ \E i \in DOMAIN c.puts : c.puts[i].iv[1] > IvFloor}

\* Days from today to the expiration dates the provider lists, in its order.
ExpirationDays == <<-1, 30>>

AllColumns == {"strike", "impliedVolatility", "volume", "openInterest"}

\* What yfinance does for one fetch: the Ticker constructor raises, .options
\* raises, .options is empty, or there are expirations and their chains, the
\* frames holding the columns named.
Provider ==
    {[kind |-> k, columns |-> AllColumns, chains |-> <<>>] :
        k \in {"ticker_raises", "options_raise", "no_options"}}
    \cup
    {[kind |-> "chains", columns |-> AllColumns, chains |-> ch] :
        ch \in [{1} -> Chains] \cup [{1, 2} -> LiquidChains]}
    \cup
    {[kind |-> "chains", columns |-> AllColumns \ {c}, chains |-> ch] :
        c \in AllColumns, ch \in [{1} -> LiquidChains]}

\* The log messages, without the values formatted into them.
LogFetching == "--- Fetching Volatility Surface Data for Ticker ---"
LogNoExpirations == "Error: No options expiration dates found."
LogFound == "Found expiration dates."
LogExpirationsRaise == "Error fetching expiration dates. Error: e"
LogChainRaise == "  Warning: Could not process options. Error: e"
LogNoChains == "Error: No valid option data could be retrieved."
LogTotal == "Total options contracts fetched (before filtering)"
LogNoIv == "Error: 'impliedVolatility' column not found. Cannot proceed."
LogCleaning == "--- Cleaning and Filtering Data ---"
LogRemovedIv == "Removed rows with invalid Implied Volatility."
LogRemovedLiquidity == "Removed rows based on Volume and Open Interest."
LogNothingLeft == "Warning: No data remaining after filtering."
LogFinal == "Final dataset contains options contracts."

\* "Error:" in msg, "Warning:" in msg
HasErrorText(msg) ==
    msg \in {LogNoExpirations, LogExpirationsRaise, LogChainRaise, LogNoChains,
             LogNoIv}
HasWarningText(msg) == msg \in {LogChainRaise, LogNothingLeft}

\* The rows one chain adds to all_options_data: calls, then puts, each with
\* OptionType, ExpirationDate and TimeToExpiration (here in days, not years).
ChainRows(chain, i) ==
    LET tag(rows, type) ==
            [j \in DOMAIN rows |->
                [Strike |-> rows[j].strike,
                 ExpirationDate |-> ExpirationDays[i],
                 TimeToExpiration |-> Max2(ExpirationDays[i], 0),
                 OptionType |-> type,
                 ImpliedVolatility |-> rows[j].iv,
                 Volume |-> rows[j].volume,
                 OpenInterest |-> rows[j].openInterest]]
    IN  IF chain.raises THEN <<>>
        ELSE tag(chain.calls, "Call") \o tag(chain.puts, "Put")

RECURSIVE Concat(_, _)
Concat(chains, n) ==
    IF n = 0 THEN <<>> ELSE Concat(chains, n - 1) \o ChainRows(chains[n], n)

RECURSIVE ChainWarnings(_, _)
ChainWarnings(chains, n) ==
    IF n = 0 THEN <<>>
    ELSE ChainWarnings(chains, n - 1) \o
         (IF chains[n].raises THEN <<LogChainRaise>> ELSE <<>>)

\* fillna(0).astype(int)
FillZero(v) == IF v = <<>> THEN <<0>> ELSE v

\* The row with the columns the frames lack left empty.
Project(row, columns) ==
    [row EXCEPT !.Strike = IF "strike" \in columns THEN @ ELSE <<>>,
                !.Volume = IF "volume" \in columns THEN FillZero(@) ELSE <<>>,
                !.OpenInterest =
                    IF "openInterest" \in columns THEN FillZero(@) ELSE <<>>]

\* Row a comes before row b by TimeToExpiration, OptionType, Strike.
SortsBefore(a, b) ==
    \/ a.TimeToExpiration < b.TimeToExpiration
    \/ /\ a.TimeToExpiration = b.TimeToExpiration
       /\ \/ (a.OptionType = "Call" /\ b.OptionType = "Put")
          \/ (a.OptionType = b.OptionType /\ a.Strike[1] < b.Strike[1])

RECURSIVE InsertRow(_, _)
InsertRow(sorted, row) ==
    IF sorted = <<>> THEN <<row>>
    ELSE IF SortsBefore(row, Head(sorted)) THEN <<row>> \o sorted
    ELSE <<Head(sorted)>> \o InsertRow(Tail(sorted), row)

\* final_df.sort_values(by=['TimeToExpiration', 'OptionType', 'Strike'])
RECURSIVE SortRows(_, _)
SortRows(rows, n) ==
    IF n = 0 THEN <<>> ELSE InsertRow(SortRows(rows, n - 1), rows[n])

\* required_cols + optional_cols under their new names, in that order.
ColumnOrder ==
    <<"Strike", "ExpirationDate", "TimeToExpiration", "OptionType",
      "ImpliedVolatility", "Volume", "OpenInterest">>

Renamed(c) ==
    CASE c = "strike" -> "Strike"
      [] c = "impliedVolatility" -> "ImpliedVolatility"
      [] c = "volume" -> "Volume"
      [] c = "openInterest" -> "OpenInterest"

DataFrameColumns(columns) ==
    SelectSeq(ColumnOrder,
        LAMBDA c : \/ c \in {"ExpirationDate", "TimeToExpiration", "OptionType"}
                   \/ \E a \in columns : Renamed(a) = c)

DataFrame(columns, rows) == [kind |-> "df", columns |-> columns, rows |-> rows]
Return(df, log) == [raised |-> FALSE, df |-> df, log |-> log]
Raise == [raised |-> TRUE, df |-> PyNone, log |-> <<>>]

\* get_volatility_surface_data(ticker, min_volume, min_open_interest) with
\* the provider answering p: (final_df or None, log_messages), or an
\* exception that leaves the function.
GetVolatilitySurfaceData(p, min_volume, min_open_interest) ==
    LET n == Len(p.chains)
        log1 == <<LogFetching>>
        combined == Concat(p.chains, n)
        log2 == log1 \o <<LogFound>> \o ChainWarnings(p.chains, n)
        log3 == log2 \o <<LogTotal>>
        cleaned == [i \in DOMAIN combined |-> Project(combined[i], p.columns)]
        valid_iv == SelectSeq(cleaned,
                        LAMBDA r : r.ImpliedVolatility # <<>>
                                   /\ r.ImpliedVolatility[1] > IvFloor)
        log4 == log3 \o <<LogCleaning>> \o
                (IF Len(cleaned) - Len(valid_iv) > 0 THEN <<LogRemovedIv>>
                 ELSE <<>>)
        filtered == "volume" \in p.columns /\ "openInterest" \in p.columns
        liquid == IF filtered
                  THEN SelectSeq(valid_iv,
                        LAMBDA r : r.Volume[1] >= min_volume
                                   /\ r.OpenInterest[1] >= min_open_interest)
                  ELSE valid_iv
        log5 == log4 \o
                (IF filtered /\ Len(valid_iv) - Len(liquid) > 0
                 THEN <<LogRemovedLiquidity>> ELSE <<>>)
    IN  IF p.kind = "ticker_raises" THEN Raise
        ELSE IF p.kind = "no_options"
        THEN Return(PyNone, log1 \o <<LogNoExpirations>>)
        ELSE IF p.kind = "options_raise"
        THEN Return(PyNone, log1 \o <<LogExpirationsRaise>>)
        ELSE IF combined = <<>>
        THEN Return(PyNone, log2 \o <<LogNoChains>>)
        ELSE IF "impliedVolatility" \notin p.columns
        THEN Return(PyNone, log3 \o <<LogNoIv>>)
        ELSE IF liquid = <<>>
        THEN Return(PyNone, log5 \o <<LogNothingLeft>>)
        ELSE IF "strike" \notin p.columns
        THEN Raise
        ELSE Return(DataFrame(DataFrameColumns(p.columns),
                              SortRows(liquid, Len(liquid))),
                    log5 \o <<LogFinal>>)

\* The value of column c in a row of the frame.
Cell(row, c) ==
    CASE c = "Strike" -> row.Strike
      [] c = "ExpirationDate" -> <<row.ExpirationDate>>
      [] c = "TimeToExpiration" -> <<row.TimeToExpiration>>
      [] c = "OptionType" -> <<row.OptionType>>
      [] c = "ImpliedVolatility" -> row.ImpliedVolatility
      [] c = "Volume" -> row.Volume
      [] c = "OpenInterest" -> row.OpenInterest

\* df.to_json(orient='split'): the column names and one list of cells per row.
ToJson(df) ==
    [kind |-> "json",
     columns |-> df.columns,
     data |-> [i \in DOMAIN df.rows |->
                  [j \in DOMAIN df.columns |-> Cell(df.rows[i], df.columns[j])]]]

\* The cell of column c in a list of cells, <<>> when the frame lacks c.
Lookup(columns, cells, c) ==
    IF \E j \in DOMAIN columns : columns[j] = c
    THEN cells[CHOOSE j \in DOMAIN columns : columns[j] = c]
    ELSE <<>>

\* pd.read_json(stored_data, orient='split')
ReadJson(json) ==
    DataFrame(json.columns,
        [i \in DOMAIN json.data |->
            LET at(c) == Lookup(json.columns, json.data[i], c)
            IN  [Strike |-> at("Strike"),
                 ExpirationDate |-> at("ExpirationDate")[1],
                 TimeToExpiration |-> at("TimeToExpiration")[1],
                 OptionType |-> at("OptionType")[1],
                 ImpliedVolatility |-> at("ImpliedVolatility"),
                 Volume |-> at("Volume"),
                 OpenInterest |-> at("OpenInterest")]])

Alert(text, about, color) ==
    [kind |-> "Alert", text |-> text, about |-> about, color |-> color]
List(items) == [kind |-> "list", items |-> items]

\* dash_table.DataTable(columns=..., data=df.to_dict('records'))
DataTable(df) == [kind |-> "DataTable", columns |-> df.columns, data |-> df.rows]

Outputs(status, data_table, stored_data, disabled) ==
    [status |-> status, table |-> data_table, store |-> stored_data,
     disabled |-> disabled]

\* not ticker
NotStr(v) == v = PyNone \/ v = Str("")
\* v is None or v < 0
NoneOrNegative(v) == v = PyNone \/ v.n < 0

\* update_output with a failed fetch leaving the button enabled.
UpdateOutputKeepsButton(ticker, min_volume, min_oi, p) ==
    IF NotStr(ticker) \/ NoneOrNegative(min_volume) \/ NoneOrNegative(min_oi)
    THEN Outputs(Alert("Please enter valid parameters.", "", "warning"),
                 PyNone, PyNone, TRUE)
    ELSE
    LET symbol == StripUpper(ticker.s)
        got == GetVolatilitySurfaceData(p, min_volume.n, min_oi.n)
    IN  IF got.raised \/ got.df = PyNone
        THEN Outputs(List(<<Alert("Failed to fetch data", symbol, "danger")>>),
                     PyNone, PyNone, FALSE)
        ELSE Outputs(List(<<Alert("Successfully fetched", symbol, "success")>>),
                     DataTable(got.df), ToJson(got.df), FALSE)

\* update_output(n_clicks, ticker, min_volume, min_oi), the provider answering
\* p: (status-message, output-table-div, volatility-data-store, disabled).
UpdateOutput(ticker, min_volume, min_oi, p) ==
    IF NotStr(ticker)
    THEN Outputs(Alert("Please enter a ticker symbol.", "", "warning"),
                 PyNone, PyNone, TRUE)
    ELSE IF NoneOrNegative(min_volume)
    THEN Outputs(Alert("Please enter a valid non-negative minimum volume.", "",
                       "warning"), PyNone, PyNone, TRUE)
    ELSE IF NoneOrNegative(min_oi)
    THEN Outputs(Alert("Please enter a valid non-negative minimum open interest.",
                       "", "warning"), PyNone, PyNone, TRUE)
    ELSE
    LET symbol == StripUpper(ticker.s)
        got == GetVolatilitySurfaceData(p, min_volume.n, min_oi.n)
        vol_surface_df == got.df
        log_msgs == got.log
        has_error == \E i \in DOMAIN log_msgs : HasErrorText(log_msgs[i])
        warnings_found == SelectSeq(log_msgs, HasWarningText)
        error_msg == log_msgs[CHOOSE i \in DOMAIN log_msgs :
                        /\ HasErrorText(log_msgs[i])
                        /\ \A j \in 1..(i - 1) : ~HasErrorText(log_msgs[j])]
    IN  IF got.raised
        THEN Outputs(Alert("An unexpected application error occurred", "",
                           "danger"), PyNone, PyNone, TRUE)
        ELSE IF vol_surface_df # PyNone /\ vol_surface_df.rows # <<>>
        THEN Outputs(
                List(<<Alert("Successfully fetched and processed", symbol,
                             "success")>> \o
                     (IF warnings_found # <<>>
                      THEN <<Alert("Processing warnings occurred", "", "warning")>>
                      ELSE <<>>)),
                DataTable(vol_surface_df), ToJson(vol_surface_df), FALSE)
        ELSE IF has_error
        THEN Outputs(List(<<Alert(error_msg, symbol, "danger")>>),
                     PyNone, PyNone, TRUE)
        ELSE Outputs(List(<<Alert("No valid option data found", symbol,
                                  "warning")>>), PyNone, PyNone, TRUE)

\* not stored_data
NotStored(v) == v = PyNone \/ v = Str("")

\* download_csv(n_clicks, stored_data, ticker): None, or the file sent.
DownloadCsv(stored_data, ticker) ==
    IF NotStored(stored_data) THEN PyNone
    ELSE LET df == ReadJson(stored_data)
             ticker_str == IF NotStr(ticker) THEN "data" ELSE StripUpper(ticker.s)
         IN  [kind |-> "file",
              filename |-> <<ticker_str, "_volatility_surface_", ".csv">>,
              columns |-> df.columns,
              rows |-> df.rows]

\* What a user can have in the ticker box and in the two number boxes.
Tickers == {PyNone, Str(" "), Str("MSFT")}
Thresholds == {PyNone} \cup {Num(n) : n \in -1..1}

\* ---------------------------------------------------------------- state
VARIABLES
    heap,    \* the Series objects; heap[1] is the caller's
    input,   \* the caller's Series as it was handed over
    call1,   \* how check_return_cleanliness(heap[1]) ended
    call2,   \* how check_return_cleanliness on call1's result ended
    metric,  \* the metric called and how it ended
    pc

vars == <<heap, input, call1, call2, metric, pc>>

\* The dashboard's components: the ticker box, the store, the table div, the
\* Download button's disabled property, the status message and the download
\* component; what the latest Fetch click met, and whether a fetch succeeded.
VARIABLES ticker, store, table, disabled, statusMessage, download, last, fetched
dashVars == <<ticker, store, table, disabled, statusMessage, download, last, fetched>>

\* app.layout
Layout ==
    /\ ticker = Str("MSFT")
    /\ store = PyNone
    /\ table = PyNone
    /\ disabled = TRUE
    /\ statusMessage = Str("Enter parameters and click 'Fetch Data'.")
    /\ download = PyNone
    /\ last = "none"
    /\ fetched = FALSE

NoCall == [status |-> "none", err |-> "", ref |-> None, notice |-> FALSE,
           val |-> NoSeries]
NoMetric == [fn |-> "none", arg |-> Zero, window |-> 0, benchmark |-> FALSE,
             status |-> "none", err |-> "", scalar |-> NaN, curve |-> <<>>]

Init ==
    /\ input \in RawSeries \cup CleanSeries
    /\ heap = <<input>>
    /\ call1 = NoCall
    /\ call2 = NoCall
    /\ metric = NoMetric
    /\ pc = "start"
    /\ Layout

\* What the caller holds after check_return_cleanliness(h[ref]): the call's
\* end and, when it returned, the Series it returned as it is at the return.
Outcome(r) ==
    [status |-> r.status, err |-> r.err, ref |-> r.ref, notice |-> r.notice,
     val |-> IF r.status = "returned" THEN r.heap[r.ref] ELSE NoSeries]

\* The caller validates its series.
Validate ==
    /\ pc = "start"
    /\ LET r == CheckReturnCleanliness(heap, 1)
       IN  /\ heap' = r.heap
           /\ call1' = Outcome(r)
    /\ pc' = "validated"
    /\ UNCHANGED <<input, call2, metric, dashVars>>

\* The caller validates the series validation returned.
Revalidate ==
    /\ pc = "validated"
    /\ call1.status = "returned"
    /\ LET r == CheckReturnCleanliness(heap, call1.ref)
       IN  /\ heap' = r.heap
           /\ call2' = Outcome(r)
    /\ pc' = "revalidated"
    /\ UNCHANGED <<input, call1, metric, dashVars>>

\* The validated series, as the metrics receive it.
Validated == heap[call1.ref].values

Finish(fn, arg, status, err, scalar, curve) ==
    /\ pc = "validated"
    /\ call1.status = "returned"
    /\ metric' = [fn |-> fn, arg |-> arg, window |-> 0, benchmark |-> FALSE,
                  status |-> status, err |-> err, scalar |-> scalar,
                  curve |-> curve]
    /\ pc' = "done"
    /\ UNCHANGED <<heap, input, call1, call2, dashVars>>

DrawdownCall ==
    /\ pc = "validated" /\ call1.status = "returned"
    /\ Finish("drawdown", Zero, "returned", "", NaN, Drawdown(Validated))

MaxDrawdownCall ==
    /\ pc = "validated" /\ call1.status = "returned"
    /\ Finish("max_drawdown", Zero, "returned", "", MaxDrawdownOf(Validated), <<>>)

SharpeRatioCall ==
    /\ pc = "validated" /\ call1.status = "returned"
    /\ \E rf \in RiskFreeRates :
         Finish("sharpe_ratio", rf, "returned", "", SharpeRatioOf(Validated, rf), <<>>)

SortinoRatioCall ==
    /\ pc = "validated" /\ call1.status = "returned"
    /\ \E rf \in RiskFreeRates :
         Finish("sortino_ratio", rf, "returned", "", SortinoRatioOf(Validated, rf), <<>>)

ValueAtRiskCall ==
    /\ pc = "validated" /\ call1.status = "returned"
    /\ \E cl \in ConfidenceLevels :
         LET r == ValueAtRiskOf(Validated, cl)
         IN  Finish("value_at_risk", cl, r.status, r.err, r.scalar, <<>>)

\* asset_score(returns, benchmark_returns, window) on the caller's series:
\* both arguments go through check_return_cleanliness, None included; a
\* benchmark that passes is then tested for truth, which pandas refuses for
\* a Series; nothing is computed or returned.
AssetScore(h, benchmark, window) ==
    LET r1 == CheckReturnCleanliness(h, 1)
        h2 == IF benchmark THEN Append(r1.heap, r1.heap[1]) ELSE r1.heap
        r2 == CheckReturnCleanliness(h2, IF benchmark THEN Len(h2) ELSE None)
    IN  IF r1.status = "raised"
        THEN [heap |-> r1.heap, status |-> "raised", err |-> r1.err]
        ELSE IF r2.status = "raised"
        THEN [heap |-> r2.heap, status |-> "raised", err |-> r2.err]
        ELSE [heap |-> r2.heap, status |-> "raised", err |-> "ValueError"]

AssetScoreCall ==
    /\ pc = "start"
    /\ \E benchmark \in BOOLEAN, window \in Windows :
         LET r == AssetScore(heap, benchmark, window)
         IN  /\ heap' = r.heap
             /\ metric' = [fn |-> "asset_score", arg |-> Zero, window |-> window,
                           benchmark |-> benchmark, status |-> r.status,
                           err |-> r.err, scalar |-> NaN, curve |-> <<>>]
    /\ pc' = "done"
    /\ UNCHANGED <<input, call1, call2, dashVars>>

Next ==
    \/ Validate
    \/ Revalidate
    \/ DrawdownCall
    \/ MaxDrawdownCall
    \/ SharpeRatioCall
    \/ SortinoRatioCall
    \/ ValueAtRiskCall
    \/ AssetScoreCall

Spec == Init /\ [][Next]_<<vars, dashVars>>

\* The dashboard on its own: no series is being scored.
InitDashboard ==
    /\ input = NoSeries
    /\ heap = <<>>
    /\ call1 = NoCall
    /\ call2 = NoCall
    /\ metric = NoMetric
    /\ pc = "dashboard"
    /\ Layout

\* The user types into the ticker box.
EditTicker ==
    /\ pc = "dashboard"
    /\ \E t \in Tickers \ {ticker} : ticker' = t
    /\ UNCHANGED <<store, table, disabled, statusMessage, download, last, fetched>>
    /\ UNCHANGED vars

\* What a Fetch click meets: inputs update_output rejects, a provider error,
\* a result that is empty after filtering, or a dataset.
FetchKind(t, min_volume, min_oi, p) ==
    IF NotStr(t) \/ NoneOrNegative(min_volume) \/ NoneOrNegative(min_oi)
    THEN "rejected"
    ELSE LET got == GetVolatilitySurfaceData(p, min_volume.n, min_oi.n)
         IN  IF got.raised THEN "error"
             ELSE IF got.df # PyNone THEN "success"
             ELSE IF got.log[Len(got.log)] = LogNothingLeft THEN "empty"
             ELSE "error"

\* A click on Fetch Data runs update_output on the three inputs; the provider
\* is asked only when the inputs pass.
FetchClick ==
    /\ pc = "dashboard"
    /\ \E min_volume, min_oi \in Thresholds :
         LET asked == ~(NotStr(ticker) \/ NoneOrNegative(min_volume)
                                       \/ NoneOrNegative(min_oi))
         IN  \E p \in IF asked THEN Provider
                       ELSE {[kind |-> "no_options", columns |-> AllColumns,
                              chains |-> <<>>]} :
                LET out == UpdateOutput(ticker, min_volume, min_oi, p)
                    kind == FetchKind(ticker, min_volume, min_oi, p)
                IN  /\ statusMessage' = out.status
                    /\ table' = out.table
                    /\ store' = out.store
                    /\ disabled' = out.disabled
                    /\ last' = kind
                    /\ fetched' = (fetched \/ kind = "success")
    /\ UNCHANGED <<ticker, download>>
    /\ UNCHANGED vars

\* The download callback runs on the store and the ticker box; the server
\* runs it whether or not the page shows the button disabled.
DownloadClick ==
    /\ pc = "dashboard"
    /\ download' = DownloadCsv(store, ticker)
    /\ UNCHANGED <<ticker, store, table, disabled, statusMessage, last, fetched>>
    /\ UNCHANGED vars

NextDashboard ==
    \/ EditTicker
    \/ FetchClick
    \/ DownloadClick

SpecDashboard == InitDashboard /\ [][NextDashboard]_<<vars, dashVars>>

\* --------------------------------------------------------------- claims
HasMissingValue(s) == \E i \in DOMAIN s.values : s.values[i] = NaN
HasDuplicateTimestamp(s) ==
    \E i, j \in DOMAIN s.index : i < j /\ s.index[i] = s.index[j]
OutOfOrder(s) == \E i \in 1..(Len(s.index) - 1) : s.index[i] > s.index[i + 1]
StrictlyIncreasing(index) ==
    \A i \in 1..(Len(index) - 1) : index[i] < index[i + 1]
Pairs(s) == {<<s.index[i], s.values[i]>> : i \in DOMAIN s.index}
AllValues(s, P(_)) == \A i \in DOMAIN s.values : P(s.values[i])

\* C1: a non-empty series with a missing value or a duplicate timestamp,
\* sorted or not, makes check_return_cleanliness raise ValueError (the
\* spec's InvalidInputError); the caller gets no series, and none (sorted,
\* converted, partial) is made.
C1_DirtyInputRaises ==
    (pc = "validated" /\ (HasMissingValue(input) \/ HasDuplicateTimestamp(input)))
        => /\ call1.status = "raised"
           /\ call1.err = "ValueError"
           /\ call1.ref = None
           /\ call1.val = NoSeries
           /\ Len(heap) = 1

\* C1, reached: an unsorted series whose first label comes back after
\* another one, no value missing, was refused.
C1_Witness ==
    /\ pc = "validated"
    /\ ~HasMissingValue(input)
    /\ HasDuplicateTimestamp(input)
    /\ OutOfOrder(input)
    /\ call1.status = "raised"

\* C2: whenever check_return_cleanliness returns, the series it returns has
\* datetime labels, whether the input was sorted or had to be re-sorted.
C2_ReturnedIsDatetime ==
    call1.status = "returned" => call1.val.rep = "datetime"

\* C3: a series with no missing value and no duplicate timestamp whose
\* timestamps are out of order is not refused; the series returned holds the
\* same (timestamp, value) pairs, by strictly increasing timestamp.
C3_UnsortedIsSorted ==
    (pc = "validated" /\ ~HasMissingValue(input) /\ ~HasDuplicateTimestamp(input)
        /\ OutOfOrder(input))
        => /\ call1.status = "returned"
           /\ Len(call1.val.index) = Len(input.index)
           /\ Len(call1.val.values) = Len(input.values)
           /\ Pairs(call1.val) = Pairs(input)
           /\ StrictlyIncreasing(call1.val.index)

\* C3, reached: an out-of-order series with two different values came back
\* reordered.
C3_Witness ==
    /\ pc = "validated"
    /\ ~HasMissingValue(input) /\ ~HasDuplicateTimestamp(input) /\ OutOfOrder(input)
    /\ call1.status = "returned"
    /\ call1.val.values # input.values

\* C4: validating the result of a validation returns that result again:
\* same values, same order, same label type.
C4_Idempotent ==
    pc = "revalidated" => (call2.status = "returned" /\ call2.val = call1.val)

\* C5: after check_return_cleanliness the caller's series is as it was
\* handed over: labels (instants and type), values and order.
C5_CallerSeriesUnchanged ==
    pc \in {"validated", "revalidated"} => heap[1] = input

MinusOne == Float(-1)
LossBelowTotal(v) == FLt(MinusOne, v)
MetricDone == pc = "done" /\ call1.status = "returned"

\* C6 as stated: every entry of drawdown's result is <= 0, for any returns.
C6_DrawdownNonPositiveAll ==
    (MetricDone /\ metric.fn = "drawdown")
        => \A i \in DOMAIN metric.curve : FLe(metric.curve[i], Zero)

\* C6 as amended: when every return is greater than -1 (the cumulative
\* product stays positive), every entry of drawdown's result is <= 0.
C6_DrawdownNonPositive ==
    (MetricDone /\ metric.fn = "drawdown"
        /\ AllValues(heap[call1.ref], LossBelowTotal))
        => /\ Len(metric.curve) = Len(Validated)
           /\ \A i \in DOMAIN metric.curve : FLe(metric.curve[i], Zero)

\* C6, reached: returns above -1 with a drawdown below 0 somewhere.
C6_Witness ==
    /\ MetricDone /\ metric.fn = "drawdown"
    /\ AllValues(heap[call1.ref], LossBelowTotal)
    /\ \E i \in DOMAIN metric.curve : FLt(metric.curve[i], Zero)

NegativeCount(values) == Cardinality({i \in DOMAIN values : FLt(values[i], Zero)})

\* C7 as stated: with no negative value sortino_ratio returns NaN and does
\* not raise, and it returns NaN only when the downside standard deviation
\* is undefined (fewer than two negative values).
C7_SortinoNaNOnlyUndefined ==
    (MetricDone /\ metric.fn = "sortino_ratio")
        => /\ metric.status = "returned"
           /\ NegativeCount(Validated) = 0 => IsNaN(metric.scalar)
           /\ IsNaN(metric.scalar) => NegativeCount(Validated) < 2

\* C7 as amended: with no negative value sortino_ratio returns NaN and does
\* not raise; it returns NaN exactly when there are fewer than two negative
\* values, or the downside deviation is 0 and the mean equals the risk-free
\* rate (0 / 0).
C7_SortinoNaN ==
    (MetricDone /\ metric.fn = "sortino_ratio")
        => /\ metric.status = "returned"
           /\ NegativeCount(Validated) = 0 => IsNaN(metric.scalar)
           /\ IsNaN(metric.scalar) <=>
                \/ NegativeCount(Validated) < 2
                \/ /\ Std(Negative(Validated)) = Zero
                   /\ Mean(Validated) = metric.arg

\* C7, reached: a series of two or more returns, none negative, got NaN.
C7_Witness ==
    /\ MetricDone /\ metric.fn = "sortino_ratio"
    /\ Len(Validated) >= 2
    /\ NegativeCount(Validated) = 0
    /\ metric.status = "returned" /\ IsNaN(metric.scalar)

IsConstant(values) == \A i \in DOMAIN values : values[i] = values[1]

\* C8: for a constant series of returns c # 0, of any length, and any
\* risk-free rate, sharpe_ratio does not raise and returns NaN or an infinity.
C8_SharpeConstantNonFinite ==
    (MetricDone /\ metric.fn = "sharpe_ratio" /\ IsConstant(Validated)
        /\ Validated[1] # Zero)
        => (metric.status = "returned" /\ ~IsFinite(metric.scalar))

\* The result C9 expects, as the specification words it (asset_score itself
\* computes nothing): entry i is undefined before a full window, then the
\* mean over the standard deviation of the window ending at i.
RollingScore(values, window) ==
    [i \in DOMAIN values |->
        IF i < window THEN NaN
        ELSE FDiv(Mean(SubSeq(values, i - window + 1, i)),
                  Std(SubSeq(values, i - window + 1, i)))]

IsValidated(s) ==
    /\ s.rep = "datetime"
    /\ ~HasMissingValue(s)
    /\ StrictlyIncreasing(s.index)

\* C9: asset_score on a validated series with no benchmark does not fail and
\* returns a series of the same length: undefined before a full window, then
\* rolling mean over rolling standard deviation.
C9_AssetScoreRolling ==
    (pc = "done" /\ metric.fn = "asset_score" /\ ~metric.benchmark
        /\ IsValidated(input))
        => /\ metric.status = "returned"
           /\ metric.curve = RollingScore(input.values, metric.window)

\* C10: value_at_risk fails with ValueError (the spec's InvalidInputError)
\* for a confidence level <= 0 or >= 1, and for one inside (0, 1) returns a
\* value between the least and the greatest return.
C10_ConfidenceLevelChecked ==
    (MetricDone /\ metric.fn = "value_at_risk")
        => IF FLt(Zero, metric.arg) /\ FLt(metric.arg, Float(1))
           THEN /\ metric.status = "returned"
                /\ FLe(SeqMin(Validated, Len(Validated)), metric.scalar)
                /\ FLe(metric.scalar, SeqMax(Validated, Len(Validated)))
           ELSE metric.status = "raised" /\ metric.err = "ValueError"

\* The store holds a non-empty dataset.
HoldsDataset(v) == v.kind = "json" /\ v.data # <<>>
\* The latest Fetch click was rejected or failed.
FetchFailed == last \in {"rejected", "error", "empty"}

\* C11: after any sequence of Fetch clicks, the Download button is enabled
\* exactly when the store holds a non-empty dataset and a table is shown, and
\* a rejected or failed fetch leaves the store cleared and the button
\* disabled, so that download_csv sends nothing whatever the ticker box holds.
C11_DownloadIffStored ==
    /\ ~disabled <=> (HoldsDataset(store) /\ table.kind = "DataTable")
    /\ FetchFailed =>
          /\ store = PyNone
          /\ disabled
          /\ \A t \in Tickers \cup {ticker} : DownloadCsv(store, t) = PyNone

\* A dataset was fetched and downloaded, then a fetch failed and cleared it.
C11_Witness ==
    /\ fetched
    /\ download # PyNone
    /\ FetchFailed
    /\ store = PyNone
    /\ disabled

============================================================================
